---- MODULE Spec2Model ----
(***************************************************************************)
(* Model of the evo-rs genome virtual machine and mutation engine.         *)
(*                                                                         *)
(*   src/src/genome.rs  Word, StackValue, Genome (mutate, balance),        *)
(*                      GenomeExecutor (budget, tables, stack)             *)
(*   src/src/animal.rs  execute_genomes, execute_word, split_animals,      *)
(*                      animal_metabolism, remove_dead_animals             *)
(*   src/src/plant.rs   Plant                                              *)
(*   src/src/config.rs  constants                                          *)
(*                                                                         *)
(* Conventions.  Positions in a genome are 0-based as in the source; the   *)
(* word at position p of a sequence ws is ws[p + 1].  An f32 is modelled   *)
(* as an integer number of thousandths (FloatScale), so 0.001 is 1 and     *)
(* 5.0 is 5000.  The world is modelled along the animal's heading axis:    *)
(* a Transform is a coordinate x on that axis and an accumulated angle.    *)
(***************************************************************************)
EXTENDS Integers, Sequences, FiniteSets, TLC

VARIABLES
    genome,         \* Genome.words of the animal
    executor,       \* its GenomeExecutor
    animal,         \* its Animal component (energy)
    transform,      \* its Transform (x along the heading axis, angle)
    sensors,        \* its Sensors component
    plants,         \* the Plant entities, in query iteration order
    status,         \* "alive", "pending" (PendingSplit), "despawned", "panicked"
    pc,             \* position of execute_genomes for this animal: "idle" or "loop"
    should_split,   \* local of execute_genomes
    should_despawn, \* local of execute_genomes
    generation,     \* number of Genome::mutate calls that led to this genome
    parent,         \* MutateCall: the words of the parent after Genome::mutate
    new_words,      \* MutateCall: its new_words before balance_control_flow
    ticks,          \* ticks started in this lineage (bounded by MaxTicks)
    drains,         \* metabolism firings (bounded by MaxDrains)
    other           \* a second animal of the world, or NoEntity

vars == <<genome, executor, animal, transform, sensors, plants, status, pc,
          should_split, should_despawn, generation, parent, new_words, ticks,
          drains, other>>

----------------------------------------------------------------------------
(* Program constants                                                       *)

FloatScale == 1000
NONE == -1
MAX_INSTRUCTIONS_PER_FRAME == 10
SPLIT_ENERGY_COST == 10
STACK_CAPACITY == 256
EAT_AMOUNT == 20
METABOLISM_COST == 1
STARTING_ANIMAL_ENERGY == 10
EAT_DISTANCE == 10 * FloatScale
MAX_MOVEMENT_SPEED == FloatScale \div 2
MAX_ANGULAR_VELOCITY == 5 * FloatScale
NO_SMELL == 999999 * FloatScale
EQ_TOLERANCE == FloatScale \div 1000
FULL_TURN == 360 * FloatScale

Min(a, b) == IF a < b THEN a ELSE b
Max(a, b) == IF a > b THEN a ELSE b
Abs(a) == IF a < 0 THEN -a ELSE a
Clamp(v, lo, hi) == Max(lo, Min(v, hi))
saturating_sub(a, b) == IF a >= b THEN a - b ELSE 0

----------------------------------------------------------------------------
(* Word and StackValue                                                     *)

W(op) == [op |-> op, arg |-> 0]
PushFloat(v) == [op |-> "PushFloat", arg |-> v]
PushBool(b) == [op |-> "PushBool", arg |-> IF b THEN 1 ELSE 0]

Float(v) == [t |-> "Float", v |-> v]
Bool(b) == [t |-> "Bool", v |-> IF b THEN 1 ELSE 0]

StackOps == {"Dup", "Drop", "Swap", "Over", "Rot"}
SensorOps == {"SmellFront", "SmellBack", "SmellLeft", "SmellRight", "Energy"}
ArithOps == {"Add", "Sub", "Mul", "Div"}
CompareOps == {"Lt", "Gt", "Eq"}
LogicOps == {"And", "Or", "Not"}
ControlOps == {"If", "Then", "Else"}
LabelOps == {"Label0", "Label1", "Label2", "Label3"}
JumpOps == {"Jump0", "Jump1", "Jump2", "Jump3"}
MoveOps == {"MoveForward", "MoveBackward", "TurnLeft", "TurnRight"}
ActionOps == {"Eat", "Split"}

\* The operand-free variants of enum Word.
PlainOps ==
    StackOps \cup SensorOps \cup ArithOps \cup CompareOps \cup LogicOps \cup
    ControlOps \cup LabelOps \cup JumpOps \cup MoveOps \cup ActionOps \cup {"Nop"}

----------------------------------------------------------------------------
(* GenomeExecutor: stack                                                   *)

Top(stack) == stack[Len(stack)]
Front(stack) == SubSeq(stack, 1, Len(stack) - 1)

\* Vec::push, used directly by Dup, Swap, Over and Rot: no capacity check.
vec_push(stack, val) == Append(stack, val)

push_float(stack, value) ==
    IF Len(stack) < STACK_CAPACITY THEN Append(stack, Float(value)) ELSE stack

push_bool(stack, value) ==
    IF Len(stack) < STACK_CAPACITY THEN Append(stack, Bool(value)) ELSE stack

\* pop: ok is FALSE for None; the value is removed whenever there is one.
pop(stack) ==
    IF stack = <<>>
    THEN [ok |-> FALSE, val |-> Float(0), stack |-> stack]
    ELSE [ok |-> TRUE, val |-> Top(stack), stack |-> Front(stack)]

\* self.stack.pop()?.as_float(): the top value is removed before its type is
\* looked at, so a Bool on top is consumed and None returned.
pop_float(stack) ==
    IF stack = <<>>
    THEN [ok |-> FALSE, val |-> 0, stack |-> stack]
    ELSE [ok |-> Top(stack).t = "Float", val |-> Top(stack).v, stack |-> Front(stack)]

pop_bool(stack) ==
    IF stack = <<>>
    THEN [ok |-> FALSE, val |-> FALSE, stack |-> stack]
    ELSE [ok |-> Top(stack).t = "Bool", val |-> (Top(stack).v = 1), stack |-> Front(stack)]

\* (executor.pop_float(), executor.pop_float()): a tuple expression evaluates
\* both calls before the pattern is matched, so the second pop happens even
\* when the first returned None.
\* Mutant: the patterns name the popped values in stack order, (a, b).
pop_float2_in_pop_order(stack) ==
    LET p1 == pop_float(stack)
        p2 == pop_float(p1.stack)
    IN  [ok |-> p1.ok /\ p2.ok, b |-> p2.val, a |-> p1.val, stack |-> p2.stack]

pop_float2(stack) ==
    LET p1 == pop_float(stack)
        p2 == pop_float(p1.stack)
    IN  [ok |-> p1.ok /\ p2.ok, b |-> p1.val, a |-> p2.val, stack |-> p2.stack]

pop_bool2(stack) ==
    LET p1 == pop_bool(stack)
        p2 == pop_bool(p1.stack)
    IN  [ok |-> p1.ok /\ p2.ok, b |-> p1.val, a |-> p2.val, stack |-> p2.stack]

\* Mutant: the pattern names the popped values in stack order, (a, b).
pop2_in_pop_order(stack) ==
    LET p1 == pop(stack)
        p2 == pop(p1.stack)
    IN  [ok |-> p1.ok /\ p2.ok, b |-> p2.val, a |-> p1.val, stack |-> p2.stack]

pop2(stack) ==
    LET p1 == pop(stack)
        p2 == pop(p1.stack)
    IN  [ok |-> p1.ok /\ p2.ok, b |-> p1.val, a |-> p2.val, stack |-> p2.stack]

----------------------------------------------------------------------------
(* GenomeExecutor: construction, budget, pointer                           *)

new(energy) ==
    [instruction_pointer |-> 0,
     stack |-> <<>>,
     instructions_executed_this_frame |-> 0,
     max_instructions_per_frame |-> Min(energy * 1, MAX_INSTRUCTIONS_PER_FRAME),
     jump_table |-> <<>>,
     label_table |-> <<NONE, NONE, NONE, NONE>>]

\* Mutant: the budget is not capped at MAX_INSTRUCTIONS_PER_FRAME.
reset_for_frame_uncapped(ex, energy) ==
    [ex EXCEPT !.instructions_executed_this_frame = 0,
               !.max_instructions_per_frame = energy * 1]

\* Mutant: the budget is not recomputed from the current energy.
reset_for_frame_stale(ex, energy) ==
    [ex EXCEPT !.instructions_executed_this_frame = 0]

\* Mutant: the frame reset also restarts the program with an empty stack.
reset_for_frame_restart(ex, energy) ==
    [ex EXCEPT !.instruction_pointer = 0,
               !.stack = <<>>,
               !.instructions_executed_this_frame = 0,
               !.max_instructions_per_frame =
                    Min(energy * 1, MAX_INSTRUCTIONS_PER_FRAME)]

reset_for_frame(ex, energy) ==
    [ex EXCEPT !.instructions_executed_this_frame = 0,
               !.max_instructions_per_frame =
                    Min(energy * 1, MAX_INSTRUCTIONS_PER_FRAME)]

can_execute(ex) ==
    ex.instructions_executed_this_frame < ex.max_instructions_per_frame

advance(ex, genome_len) ==
    [ex EXCEPT !.instruction_pointer =
                    IF ex.instruction_pointer + 1 >= genome_len
                    THEN 0 ELSE ex.instruction_pointer + 1,
               !.instructions_executed_this_frame = @ + 1]

\* Mutant: a jump is not counted as an executed instruction.
jump_to_uncounted(ex, target, genome_len) ==
    [ex EXCEPT !.instruction_pointer = target % genome_len]

\* Mutant: the pointer is advanced past the target of a jump.
jump_to_advancing(ex, target, genome_len) ==
    [ex EXCEPT !.instruction_pointer = (target + 1) % genome_len,
               !.instructions_executed_this_frame = @ + 1]

\* Mutant: the Jump arm sets the pointer and then falls into the advance of
\* the Continue arm.
jump_to_then_advance(ex, target, genome_len) ==
    [ex EXCEPT !.instruction_pointer = ((target % genome_len) + 1) % genome_len,
               !.instructions_executed_this_frame = @ + 2]

\* Ok(ExecutionResult::Jump(target)) arm of execute_genomes, for a non-empty
\* genome (target % 0 panics and is handled by the caller).
jump_to(ex, target, genome_len) ==
    [ex EXCEPT !.instruction_pointer = target % genome_len,
               !.instructions_executed_this_frame = @ + 1]

----------------------------------------------------------------------------
(* GenomeExecutor: control-flow tables                                     *)

\* One step of the scan of build_jump_table at position i (0-based), with
\* the open-If stack, the else_positions map (a function on positions,
\* NONE where absent) and the table built so far.
\* Mutant: a Then is paired with the outermost open If.
matching_if_outermost(if_stack) == Head(if_stack)

\* if_stack.pop(): the If a Then is paired with is the last one pushed.
matching_if(if_stack) == Top(if_stack)

RECURSIVE jump_scan(_, _, _, _, _)
jump_scan(words, i, if_stack, else_positions, table) ==
    IF i >= Len(words) THEN table
    ELSE LET op == words[i + 1].op IN
         CASE op = "If" ->
                jump_scan(words, i + 1, Append(if_stack, i), else_positions, table)
           [] op = "Else" ->
                IF if_stack # <<>>
                THEN jump_scan(words, i + 1, if_stack,
                               [else_positions EXCEPT ![Top(if_stack)] = i], table)
                ELSE jump_scan(words, i + 1, if_stack, else_positions, table)
           [] op = "Then" ->
                IF if_stack # <<>>
                THEN jump_scan(words, i + 1, Front(if_stack), else_positions,
                               Append(table,
                                      [if_pos |-> matching_if(if_stack),
                                       else_pos |->
                                            else_positions[matching_if(if_stack)],
                                       then_pos |-> i]))
                ELSE jump_scan(words, i + 1, if_stack, else_positions, table)
           [] OTHER ->
                jump_scan(words, i + 1, if_stack, else_positions, table)

\* Mutant: self.jump_table.clear() is missing, the scan appends to the
\* table of the previous tick.
build_jump_table_uncleared(ex, words) ==
    [ex EXCEPT !.jump_table =
        jump_scan(words, 0, <<>>, [p \in 0..Len(words) |-> NONE], ex.jump_table)]

\* self.jump_table.clear(), then the scan.
build_jump_table(ex, words) ==
    [ex EXCEPT !.jump_table =
        jump_scan(words, 0, <<>>, [p \in 0..Len(words) |-> NONE], <<>>)]

LabelIndex(op) ==
    CASE op = "Label0" -> 1 [] op = "Label1" -> 2
      [] op = "Label2" -> 3 [] op = "Label3" -> 4 [] OTHER -> 0

JumpIndex(op) ==
    CASE op = "Jump0" -> 1 [] op = "Jump1" -> 2
      [] op = "Jump2" -> 3 [] op = "Jump3" -> 4 [] OTHER -> 0

\* The scan of build_label_table: every occurrence overwrites the slot.
RECURSIVE label_scan(_, _, _)
label_scan(words, i, table) ==
    IF i >= Len(words) THEN table
    ELSE LET k == LabelIndex(words[i + 1].op) IN
         label_scan(words, i + 1, IF k = 0 THEN table ELSE [table EXCEPT ![k] = i])

\* self.label_table = [None; 4], then the scan.
build_label_table(ex, words) ==
    [ex EXCEPT !.label_table = label_scan(words, 0, <<NONE, NONE, NONE, NONE>>)]

----------------------------------------------------------------------------
(* Genome: mutation                                                        *)

\* Outcomes of Word::random used by the model: a subset of its support (the
\* two words balance_control_flow counts, and one it does not).
RandomWords == {W("If"), W("Then"), W("Nop")}

Count(words, op) == Cardinality({i \in 1..Len(words) : words[i].op = op})

RemoveAt(words, pos) == SubSeq(words, 1, pos) \o SubSeq(words, pos + 2, Len(words))

\* Mutant: position() instead of rposition(): the first Then is found.
position_then(words) ==
    LET S == {i \in 1..Len(words) : words[i].op = "Then"}
    IN  IF S = {} THEN NONE ELSE (CHOOSE i \in S : \A j \in S : i <= j) - 1

\* words.iter().rposition(|w| *w == Word::Then), 0-based, NONE when absent.
rposition_then(words) ==
    LET S == {i \in 1..Len(words) : words[i].op = "Then"}
    IN  IF S = {} THEN NONE ELSE (CHOOSE i \in S : \A j \in S : j <= i) - 1

\* "Add missing THENs": while then_count < if_count { push(Then) }
RECURSIVE add_missing_thens(_, _, _)
add_missing_thens(words, if_count, then_count) ==
    IF then_count < if_count
    THEN add_missing_thens(Append(words, W("Then")), if_count, then_count + 1)
    ELSE words

\* "Remove extra THENs": while then_count > if_count && then_count > 0
RECURSIVE remove_extra_thens(_, _, _)
remove_extra_thens(words, if_count, then_count) ==
    IF then_count > if_count /\ then_count > 0 /\ rposition_then(words) # NONE
    THEN remove_extra_thens(RemoveAt(words, rposition_then(words)),
                            if_count, then_count - 1)
    ELSE words

\* Mutant: the "Remove extra THENs" loop is missing.
balance_without_removal(words) ==
    add_missing_thens(words, Count(words, "If"), Count(words, "Then"))

balance_control_flow(words) ==
    LET if_count == Count(words, "If")
        then_count == Count(words, "Then")
        added == add_missing_thens(words, if_count, then_count)
    IN  remove_extra_thens(added, if_count, Max(if_count, then_count))

\* Mutant: the duplicate pushed is the parent's word, not word_to_add.
word_outcomes_duplicating_original(word) ==
    LET kept == {word} \cup RandomWords
    IN  {<<>>} \cup {<<w>> : w \in kept} \cup {<<w, word>> : w \in kept}

\* What one iteration of the loop of mutate can push for one parent word:
\* nothing (deleted), the word or a random word, once or twice (duplicated).
word_outcomes(word) ==
    LET kept == {word} \cup RandomWords
    IN  {<<>>} \cup {<<w>> : w \in kept} \cup {<<w, w>> : w \in kept}

\* The possible values of new_words after the loop of mutate.
RECURSIVE mutate_loop(_)
mutate_loop(words) ==
    IF words = <<>> THEN {<<>>}
    ELSE {h \o t : h \in word_outcomes(Head(words)), t \in mutate_loop(Tail(words))}

\* "Ensure genome doesn't become empty"
ensure_nonempty(nw) ==
    IF nw = <<>> THEN {<<r>> : r \in RandomWords} ELSE {nw}

\* Mutant: the parent's own vector is edited and returned.
mutate_in_place(words) ==
    {[new_words |-> nw, words |-> balance_control_flow(nw),
      self |-> balance_control_flow(nw)] :
        nw \in UNION {ensure_nonempty(n) : n \in mutate_loop(words)}}

\* The runs of Genome::mutate on a parent: new_words as handed to
\* balance_control_flow, the words of the genome returned, and the words of
\* the parent (&self) after the call.
mutate(words) ==
    {[new_words |-> nw, words |-> balance_control_flow(nw), self |-> words] :
        nw \in UNION {ensure_nonempty(n) : n \in mutate_loop(words)}}

----------------------------------------------------------------------------
(* execute_word                                                            *)

\* The value execute_word returns together with what it leaves in its
\* &mut arguments: the stack, the animal, the transform and the plants.
Outcome(result, target, stack, an, tr, pl) ==
    [result |-> result, target |-> target, stack |-> stack,
     animal |-> an, transform |-> tr, plants |-> pl]

\* a op b on f32 values (thousandths); Div is only used with b # 0.
\* Mutant: Div without the test for zero; the IEEE quotient by zero is an
\* infinity or NaN, modelled as a magnitude beyond every value of the model.
arith_unchecked(op, a, b) ==
    CASE op = "Add" -> a + b
      [] op = "Sub" -> a - b
      [] op = "Mul" -> (a * b) \div FloatScale
      [] op = "Div" -> IF b # 0 THEN (a * FloatScale) \div b
                       ELSE (IF a < 0 THEN -1 ELSE 1) * NO_SMELL

arith(op, a, b) ==
    CASE op = "Add" -> a + b
      [] op = "Sub" -> a - b
      [] op = "Mul" -> (a * b) \div FloatScale
      [] op = "Div" -> IF b # 0 THEN (a * FloatScale) \div b ELSE 0

\* Mutant: Eq accepts a difference of exactly the tolerance.
compare_inclusive(op, a, b) ==
    CASE op = "Lt" -> a < b
      [] op = "Gt" -> a > b
      [] op = "Eq" -> Abs(a - b) <= EQ_TOLERANCE

\* Mutant: the operands are compared in the order they were popped.
compare_reversed(op, a, b) ==
    CASE op = "Lt" -> b < a
      [] op = "Gt" -> b > a
      [] op = "Eq" -> Abs(b - a) < EQ_TOLERANCE

compare(op, a, b) ==
    CASE op = "Lt" -> a < b
      [] op = "Gt" -> a > b
      [] op = "Eq" -> Abs(a - b) < EQ_TOLERANCE

sensor_value(op, sn, an) ==
    LET unwrap_or(v) == IF v = NONE THEN NO_SMELL ELSE v
    IN  CASE op = "SmellFront" -> unwrap_or(sn.smell_front)
          [] op = "SmellBack" -> unwrap_or(sn.smell_back)
          [] op = "SmellLeft" -> unwrap_or(sn.smell_left)
          [] op = "SmellRight" -> unwrap_or(sn.smell_right)
          [] op = "Energy" -> an.energy * FloatScale

\* The pose after a movement word that popped `value`.
moved(op, tr, value) ==
    LET clamped_distance ==
            Clamp(value \div 100, -MAX_MOVEMENT_SPEED, MAX_MOVEMENT_SPEED)
        clamped_degrees ==
            Clamp(value \div 100, -MAX_ANGULAR_VELOCITY, MAX_ANGULAR_VELOCITY)
    IN  CASE op = "MoveForward" -> [tr EXCEPT !.x = @ + clamped_distance]
          [] op = "MoveBackward" -> [tr EXCEPT !.x = @ - clamped_distance]
          [] op = "TurnLeft" ->
                [tr EXCEPT !.angle = (@ + clamped_degrees) % FULL_TURN]
          [] op = "TurnRight" ->
                [tr EXCEPT !.angle = (@ - clamped_degrees) % FULL_TURN]

\* Index (1-based) of the first plant, in iteration order, within
\* EAT_DISTANCE of the animal; 0 when there is none.
first_in_reach(pl, tr) ==
    LET S == {i \in 1..Len(pl) : Abs(pl[i].x - tr.x) <= EAT_DISTANCE}
    IN  IF S = {} THEN 0 ELSE CHOOSE i \in S : \A j \in S : i <= j

\* Mutant: the animal is credited EAT_AMOUNT whatever the plant held.
eat_crediting_full_amount(an, tr, pl) ==
    LET i == first_in_reach(pl, tr) IN
    IF i = 0 THEN [animal |-> an, plants |-> pl]
    ELSE LET left == saturating_sub(pl[i].energy, EAT_AMOUNT)
         IN  [animal |-> [an EXCEPT !.energy = @ + EAT_AMOUNT],
              plants |-> [pl EXCEPT ![i].energy = left,
                                    ![i].despawn = @ \/ (left = 0),
                                    ![i].eaten = TRUE]]

\* Word::Eat: the first plant in reach gives up min(energy, EAT_AMOUNT); a
\* plant left with no energy gets a (deferred) despawn command.
eat(an, tr, pl) ==
    LET i == first_in_reach(pl, tr) IN
    IF i = 0 THEN [animal |-> an, plants |-> pl]
    ELSE LET energy_to_transfer == Min(pl[i].energy, EAT_AMOUNT)
             left == saturating_sub(pl[i].energy, energy_to_transfer)
         IN  [animal |-> [an EXCEPT !.energy = @ + energy_to_transfer],
              plants |-> [pl EXCEPT ![i].energy = left,
                                    ![i].despawn = @ \/ (left = 0),
                                    ![i].eaten = TRUE]]

\* Mutant: the entry found is the first one whose If is at or before the
\* current position.
find_if_at_or_before(jump_table, current_pos) ==
    LET S == {k \in 1..Len(jump_table) : jump_table[k].if_pos <= current_pos}
    IN  IF S = {} THEN 0 ELSE CHOOSE k \in S : \A j \in S : k <= j

\* jump_table.iter().find(|(if_pos, _, _)| *if_pos == current_pos): the
\* index (1-based) of the first such entry, 0 when there is none.
find_if(jump_table, current_pos) ==
    LET S == {k \in 1..Len(jump_table) : jump_table[k].if_pos = current_pos}
    IN  IF S = {} THEN 0 ELSE CHOOSE k \in S : \A j \in S : k <= j

\* The first entry whose else_pos is Some(current_pos), 0 when there is none.
find_else(jump_table, current_pos) ==
    LET S == {k \in 1..Len(jump_table) : jump_table[k].else_pos = current_pos}
    IN  IF S = {} THEN 0 ELSE CHOOSE k \in S : \A j \in S : k <= j

\* Mutant: the false branch always resumes after the Then.
false_branch_target_past_then(entry) == entry.then_pos + 1

\* Word::If, "Jump to else or then": where a false condition resumes.
false_branch_target(entry) ==
    IF entry.else_pos # NONE THEN entry.else_pos + 1 ELSE entry.then_pos + 1

exec_stack_word(op, ex, an, tr, pl) ==
    LET st == ex.stack IN
    CASE op = "Dup" ->
            IF st # <<>>
            THEN Outcome("Continue", 0, vec_push(st, Top(st)), an, tr, pl)
            ELSE Outcome("Skip", 0, st, an, tr, pl)
      [] op = "Drop" -> Outcome("Continue", 0, pop(st).stack, an, tr, pl)
      [] op = "Swap" ->
            LET p == pop2(st) IN
            IF p.ok
            THEN Outcome("Continue", 0, vec_push(vec_push(p.stack, p.b), p.a),
                         an, tr, pl)
            ELSE Outcome("Skip", 0, p.stack, an, tr, pl)
      [] op = "Over" ->
            IF Len(st) >= 2
            THEN Outcome("Continue", 0, vec_push(st, st[Len(st) - 1]), an, tr, pl)
            ELSE Outcome("Skip", 0, st, an, tr, pl)
      [] op = "Rot" ->
            IF Len(st) >= 3
            THEN LET c == st[Len(st)]
                     b == st[Len(st) - 1]
                     a == st[Len(st) - 2]
                     rest == SubSeq(st, 1, Len(st) - 3)
                 IN  Outcome("Continue", 0,
                             vec_push(vec_push(vec_push(rest, b), c), a),
                             an, tr, pl)
            ELSE Outcome("Skip", 0, st, an, tr, pl)

exec_value_word(word, ex, an, sn, tr, pl) ==
    LET st == ex.stack
        op == word.op
    IN
    CASE op = "PushFloat" ->
            Outcome("Continue", 0, push_float(st, word.arg), an, tr, pl)
      [] op = "PushBool" ->
            Outcome("Continue", 0, push_bool(st, word.arg = 1), an, tr, pl)
      [] op \in SensorOps ->
            Outcome("Continue", 0, push_float(st, sensor_value(op, sn, an)),
                    an, tr, pl)
      [] op \in ArithOps ->
            LET p == pop_float2(st) IN
            IF p.ok
            THEN Outcome("Continue", 0, push_float(p.stack, arith(op, p.a, p.b)),
                         an, tr, pl)
            ELSE Outcome("Skip", 0, p.stack, an, tr, pl)
      [] op \in CompareOps ->
            LET p == pop_float2(st) IN
            IF p.ok
            THEN Outcome("Continue", 0, push_bool(p.stack, compare(op, p.a, p.b)),
                         an, tr, pl)
            ELSE Outcome("Skip", 0, p.stack, an, tr, pl)
      [] op \in {"And", "Or"} ->
            LET p == pop_bool2(st) IN
            IF p.ok
            THEN Outcome("Continue", 0,
                         push_bool(p.stack,
                                   IF op = "And" THEN p.a /\ p.b ELSE p.a \/ p.b),
                         an, tr, pl)
            ELSE Outcome("Skip", 0, p.stack, an, tr, pl)
      [] op = "Not" ->
            LET p == pop_bool(st) IN
            IF p.ok
            THEN Outcome("Continue", 0, push_bool(p.stack, ~p.val), an, tr, pl)
            ELSE Outcome("Skip", 0, p.stack, an, tr, pl)

exec_control_word(op, ex, an, tr, pl) ==
    LET st == ex.stack
        current_pos == ex.instruction_pointer
    IN
    CASE op = "If" ->
            LET p == pop_bool(st)
                condition == IF p.ok THEN p.val ELSE FALSE
                k == find_if(ex.jump_table, current_pos)
            IN  IF k # 0 /\ ~condition
                THEN Outcome("Jump", false_branch_target(ex.jump_table[k]),
                             p.stack, an, tr, pl)
                ELSE Outcome("Continue", 0, p.stack, an, tr, pl)
      [] op = "Else" ->
            LET k == find_else(ex.jump_table, current_pos) IN
            IF k # 0
            THEN Outcome("Jump", ex.jump_table[k].then_pos + 1, st, an, tr, pl)
            ELSE Outcome("Continue", 0, st, an, tr, pl)
      [] op = "Then" -> Outcome("Continue", 0, st, an, tr, pl)
      [] op \in LabelOps -> Outcome("Continue", 0, st, an, tr, pl)
      [] op \in JumpOps ->
            LET target == ex.label_table[JumpIndex(op)] IN
            IF target # NONE
            THEN Outcome("Jump", target, st, an, tr, pl)
            ELSE Outcome("Continue", 0, st, an, tr, pl)

exec_action_word(op, ex, an, tr, pl) ==
    LET st == ex.stack IN
    CASE op \in MoveOps ->
            LET p == pop_float(st) IN
            IF p.ok
            THEN Outcome("Continue", 0, p.stack, an, moved(op, tr, p.val), pl)
            ELSE Outcome("Skip", 0, p.stack, an, tr, pl)
      [] op = "Eat" ->
            LET e == eat(an, tr, pl) IN
            Outcome("Continue", 0, st, e.animal, tr, e.plants)
      [] op \in {"Split", "Nop"} -> Outcome("Continue", 0, st, an, tr, pl)

execute_word(word, ex, an, sn, tr, pl) ==
    CASE word.op \in StackOps -> exec_stack_word(word.op, ex, an, tr, pl)
      [] word.op \in ControlOps \cup LabelOps \cup JumpOps ->
            exec_control_word(word.op, ex, an, tr, pl)
      [] word.op \in MoveOps \cup ActionOps \cup {"Nop"} ->
            exec_action_word(word.op, ex, an, tr, pl)
      [] OTHER -> exec_value_word(word, ex, an, sn, tr, pl)

----------------------------------------------------------------------------
(* Bounds and inputs                                                       *)

MaxTicks == 2
MaxDrains == 1
MaxGenerations == 1
MaxGenomeLen == 3
MaxParentLen == 2
MaxChain == 2
MaxDeepTicks == 27
MaxControlLen == 5
MaxLabelLen == 3
MaxExampleEnergy == 12
MaxPlants == 2

FloatLiterals == {0, 3 * FloatScale}

AllWords ==
    {W(op) : op \in PlainOps} \cup {PushFloat(v) : v \in FloatLiterals} \cup
    {PushBool(TRUE), PushBool(FALSE)}

SeqsUpTo(S, n) == UNION {[1..k -> S] : k \in 0..n}

\* Every word after every way of preparing at most two operands.
Probes ==
    {pre \o <<w>> :
        pre \in SeqsUpTo({PushFloat(3 * FloatScale), PushBool(TRUE)}, 2),
        w \in AllWords}

\* Every program of at most MaxGenomeLen control-flow words and Split (an If
\* on an empty stack takes its false branch).
CoreWords ==
    {W("If"), W("Else"), W("Then"), W("Label0"), W("Jump0"), W("Split")}

Programs == SeqsUpTo(CoreWords, MaxGenomeLen) \ {<<>>}

\* 5.0 3.0 > if 1.0 forward then
Example ==
    <<PushFloat(5 * FloatScale), PushFloat(3 * FloatScale), W("Gt"), W("If"),
      PushFloat(1 * FloatScale), W("MoveForward"), W("Then")>>

Curated ==
    {Example,
     <<W("If"), W("Nop"), W("Then"), W("If"), W("Nop"), W("Else"), W("Nop"),
       W("Then")>>,
     <<PushBool(TRUE), W("If"), W("If"), W("Else"), W("Then"), W("Else"),
       W("Label1"), W("Then"), W("Jump1")>>}

InitGenomes == Probes \cup Programs \cup Curated

InitEnergies == {0, 1, 3, 10, 12}

\* A Plant with its position; despawn: a despawn command is pending for it;
\* eaten: an Eat of the pass of execute_genomes under way has taken from it.
Plant(energy, x) ==
    [energy |-> energy, x |-> x, despawn |-> FALSE, eaten |-> FALSE]

\* Plants matter only to a genome that eats or smells.
UsesPlants(words) ==
    \E i \in 1..Len(words) : words[i].op \in SensorOps \cup {"Eat"}

InitPlants(words) ==
    IF UsesPlants(words) THEN {<<>>, <<Plant(25, 4 * FloatScale)>>} ELSE {<<>>}

no_sensors ==
    [smell_front |-> NONE, smell_back |-> NONE,
     smell_left |-> NONE, smell_right |-> NONE]

----------------------------------------------------------------------------
(* Systems                                                                 *)

\* No second animal in the world.
NoEntity == [status |-> "none"]

\* The components of an animal the loop of execute_genomes is not at.
Entity(words, ex, an, tr, sn, st, n) ==
    [genome |-> words, executor |-> ex, animal |-> an, transform |-> tr,
     sensors |-> sn, status |-> st, ticks |-> n]

\* Mutant: the two tables are kept in one place for all animals.
untouched_but_tables(entity, ex) ==
    IF entity = NoEntity THEN entity
    ELSE [entity EXCEPT !.executor.jump_table = ex.jump_table,
                        !.executor.label_table = ex.label_table]

\* What an iteration of the loop of execute_genomes, working on the
\* components of one animal (its executor is ex afterwards), leaves of
\* another animal: the iteration holds the components of its own entity only.
untouched(entity, ex) == entity

\* update_sensors for this animal: each plant falls into one sector and the
\* sector keeps the smallest distance.  On the heading axis right_dot is 0.
RECURSIVE sense(_, _, _, _)
sense(pl, i, tr, sn) ==
    IF i > Len(pl) THEN sn
    ELSE LET to_plant == pl[i].x - tr.x
             distance == Abs(to_plant)
             forward_dot == to_plant
             right_dot == 0
             nearer(d) == IF d = NONE THEN distance ELSE Min(d, distance)
         IN  sense(pl, i + 1, tr,
                   IF Abs(forward_dot) > Abs(right_dot)
                   THEN IF forward_dot > 0
                        THEN [sn EXCEPT !.smell_front = nearer(@)]
                        ELSE [sn EXCEPT !.smell_back = nearer(@)]
                   ELSE IF right_dot > 0
                        THEN [sn EXCEPT !.smell_right = nearer(@)]
                        ELSE [sn EXCEPT !.smell_left = nearer(@)])

UpdateSensors ==
    /\ pc = "idle"
    /\ status \in {"alive", "pending"}
    /\ sensors' = sense(plants, 1, transform, no_sensors)
    /\ UNCHANGED <<other, genome, executor, animal, transform, plants, status, pc,
                   should_split, should_despawn, generation, parent, new_words,
                   ticks, drains>>

\* Mutant: the query of execute_genomes has no Without<PendingSplit> filter.
queried_with_pending(st) == st \in {"alive", "pending"}

\* Whether the query of execute_genomes yields the entity: it is in the
\* world and has no PendingSplit component.
queried(st) == st = "alive"

\* execute_genomes, before the loop: reset_for_frame, build_jump_table,
\* build_label_table, and the two locals.
BeginTick ==
    /\ pc = "idle"
    /\ queried(status)
    /\ executor' = build_label_table(
                        build_jump_table(
                            reset_for_frame(executor, animal.energy), genome),
                        genome)
    /\ should_despawn' = FALSE
    /\ should_split' = FALSE
    /\ pc' = "loop"
    /\ ticks' = ticks + 1
    /\ other' = untouched(other, executor')
    /\ UNCHANGED <<genome, animal, transform, sensors, plants, status,
                   generation, parent, new_words, drains>>

TickStart == ticks < MaxTicks /\ BeginTick

\* Whether the while loop is still running: its condition holds and no
\* break was taken (a break is taken exactly when one of the locals is set).
InLoop ==
    pc = "loop" /\ can_execute(executor) /\ ~should_split /\ ~should_despawn

\* The executor after "Ensure IP is within bounds (wrap if necessary)".
wrapped(ex, genome_len) ==
    IF ex.instruction_pointer >= genome_len
    THEN [ex EXCEPT !.instruction_pointer = 0] ELSE ex

\* genome.words[executor.instruction_pointer] panics on an index that is
\* not below the length.
fetch_panics(ex, words) == ex.instruction_pointer >= Len(words)

\* Mutant: the energy check of the Split special case is missing.
has_split_energy_unchecked(an) == TRUE

\* Mutant: any energy at all is enough for a Split.
has_split_energy_positive(an) == an.energy > 0

\* "Handle Split as a special case (requires energy check before execution)"
has_split_energy(an) == an.energy >= SPLIT_ENERGY_COST

\* Mutant: the budget is computed again from the energy after each word.
after_word_rebudgeted(ex, out) ==
    [ex EXCEPT !.stack = out.stack,
               !.max_instructions_per_frame =
                    Min(out.animal.energy * 1, MAX_INSTRUCTIONS_PER_FRAME)]

\* The executor as execute_word leaves it: the word's pushes and pops are
\* its only writes to it.
after_word(ex, out) == [ex EXCEPT !.stack = out.stack]

\* One iteration of the while loop of execute_genomes.
Step ==
    /\ InLoop
    /\ LET ex == wrapped(executor, Len(genome)) IN
       IF fetch_panics(ex, genome)
       THEN /\ status' = "panicked"
            /\ pc' = "idle"
            /\ executor' = ex
            /\ UNCHANGED <<animal, transform, plants, should_split>>
       ELSE LET word == genome[ex.instruction_pointer + 1] IN
            IF word.op = "Split"
            THEN /\ should_split' = has_split_energy(animal)
                 /\ executor' = advance(ex, Len(genome))
                 /\ UNCHANGED <<animal, transform, plants, status, pc>>
            ELSE LET out == execute_word(word, ex, animal, sensors,
                                         transform, plants)
                     ex2 == after_word(ex, out)
                 IN  /\ executor' = IF out.result = "Jump"
                                    THEN jump_to(ex2, out.target, Len(genome))
                                    ELSE advance(ex2, Len(genome))
                     /\ animal' = out.animal
                     /\ transform' = out.transform
                     /\ plants' = out.plants
                     /\ UNCHANGED <<status, pc, should_split>>
    /\ other' = untouched(other, executor')
    /\ UNCHANGED <<genome, sensors, should_despawn, generation, parent,
                   new_words, ticks, drains>>

\* Deferred despawn commands of plants take effect when the system's
\* commands are applied (and the pass is over for the plants that stay).
apply_commands(pl) ==
    LET keep == {i \in 1..Len(pl) : ~pl[i].despawn}
        RECURSIVE kept(_)
        kept(i) == IF i > Len(pl) THEN <<>>
                   ELSE (IF i \in keep THEN <<[pl[i] EXCEPT !.eaten = FALSE]>>
                         ELSE <<>>) \o kept(i + 1)
    IN  kept(1)

\* Mutant: only a fatal error despawns, the energy is not looked at.
deferred_actions_without_energy(st, despawn, split, an) ==
    IF despawn THEN "despawned"
    ELSE IF split THEN "pending"
    ELSE st

\* "Apply deferred actions after iteration completes": what becomes of the
\* entity, given the two locals and the animal.
deferred_actions(st, despawn, split, an) ==
    IF despawn \/ an.energy = 0 THEN "despawned"
    ELSE IF split THEN "pending"
    ELSE st

\* execute_genomes, after the loop: "Apply deferred actions".
TickEnd ==
    /\ pc = "loop"
    /\ ~InLoop
    /\ status' = deferred_actions(status, should_despawn, should_split, animal)
    /\ plants' = apply_commands(plants)
    /\ pc' = "idle"
    /\ other' = untouched(other, executor)
    /\ UNCHANGED <<genome, executor, animal, transform, sensors,
                   should_split, should_despawn, generation, parent, new_words,
                   ticks, drains>>

\* Mutant: the offspring is given a copy of the parent's executor.
offspring_executor_cloned(parent_executor, offspring_energy) ==
    reset_for_frame(parent_executor, offspring_energy)

\* split_animals: the executor component an offspring is spawned with.
offspring_executor(parent_executor, offspring_energy) == new(offspring_energy)

\* Mutant: the remaining energy is not divided between the offspring.
offspring_energy_undivided(energy) == saturating_sub(energy, SPLIT_ENERGY_COST)

\* split_animals: remaining_energy / 2, the energy of each offspring.
offspring_energy(energy) == saturating_sub(energy, SPLIT_ENERGY_COST) \div 2

\* split_animals for one parent: the parent is despawned and its variables
\* go on as the offspring of the first iteration of `for _ in 0..2`; with
\* both, the offspring of the second iteration becomes the other animal.
SplitParent(both) ==
    /\ pc = "idle"
    /\ status = "pending"
    /\ generation < MaxGenerations
    /\ animal' = [energy |-> offspring_energy(animal.energy)]
    /\ executor' = offspring_executor(executor, offspring_energy(animal.energy))
    /\ \E m \in mutate(genome) : genome' = m.words
    /\ sensors' = no_sensors
    /\ status' = "alive"
    /\ generation' = generation + 1
    /\ IF both
       THEN \E m \in mutate(genome) :
                other' = Entity(m.words,
                                offspring_executor(executor,
                                        offspring_energy(animal.energy)),
                                [energy |-> offspring_energy(animal.energy)],
                                transform, no_sensors, "alive", ticks)
       ELSE other' = other
    /\ UNCHANGED <<transform, plants, pc, should_split, should_despawn, parent,
                   new_words, ticks, drains>>

\* split_animals, following one of the two offspring.
SplitAnimals == SplitParent(FALSE)

\* split_animals in a world where the parent is the only animal.
SplitInTwo == other = NoEntity /\ SplitParent(TRUE)

\* animal_metabolism when the timer has just finished.
Metabolism ==
    /\ pc = "idle"
    /\ status \in {"alive", "pending"}
    /\ drains < MaxDrains
    /\ animal' = [animal EXCEPT !.energy = saturating_sub(@, METABOLISM_COST)]
    /\ drains' = drains + 1
    /\ UNCHANGED <<other, genome, executor, transform, sensors, plants, status, pc,
                   should_split, should_despawn, generation, parent, new_words,
                   ticks>>

\* remove_dead_animals for this animal (zero energy).
RemoveDead ==
    /\ pc = "idle"
    /\ status \in {"alive", "pending"}
    /\ animal.energy = 0
    /\ status' = "despawned"
    /\ UNCHANGED <<other, genome, executor, animal, transform, sensors, plants, pc,
                   should_split, should_despawn, generation, parent, new_words,
                   ticks, drains>>

\* The for loop of a system moves on to the other animal: the variables of
\* the animal at hand and the record of the other one change places.
NextEntity ==
    /\ pc = "idle"
    /\ other # NoEntity
    /\ genome' = other.genome
    /\ executor' = other.executor
    /\ animal' = other.animal
    /\ transform' = other.transform
    /\ sensors' = other.sensors
    /\ status' = other.status
    /\ ticks' = other.ticks
    /\ other' = Entity(genome, executor, animal, transform, sensors, status,
                       ticks)
    /\ UNCHANGED <<plants, pc, should_split, should_despawn, generation,
                   parent, new_words, drains>>

----------------------------------------------------------------------------
(* Specifications                                                          *)

FreshAnimal(words, energy, pl) ==
    /\ genome = words
    /\ animal = [energy |-> energy]
    /\ executor = new(energy)
    /\ transform = [x |-> 0, angle |-> 0]
    /\ sensors = no_sensors
    /\ plants = pl
    /\ status = "alive"
    /\ pc = "idle"
    /\ should_split = FALSE
    /\ should_despawn = FALSE
    /\ generation = 0
    /\ parent = <<>>
    /\ new_words = <<>>
    /\ ticks = 0
    /\ drains = 0

Fresh(words, energy, pl) == FreshAnimal(words, energy, pl) /\ other = NoEntity

\* One animal from its spawn on.
Init ==
    \E words \in InitGenomes, energy \in InitEnergies :
        \E pl \in InitPlants(words) : Fresh(words, energy, pl)

Next ==
    \/ UpdateSensors
    \/ TickStart
    \/ Step
    \/ TickEnd
    \/ SplitAnimals
    \/ Metabolism
    \/ RemoveDead

Spec == Init /\ [][Next]_vars

\* The loop of execute_genomes runs to its end within one call of the
\* system, and the system then applies its deferred actions.
FairSpec == Spec /\ WF_vars(Step) /\ WF_vars(TickEnd)

----------------------------------------------------------------------------
(* Genome::mutate alone, applied to every short parent and again to its    *)
(* offspring                                                               *)

MutationAlphabet == {W("If"), W("Then"), W("Else"), W("Nop")}

ParentGenomes == SeqsUpTo(MutationAlphabet, MaxParentLen) \ {<<>>}

InitMutate ==
    \E words \in ParentGenomes : Fresh(words, STARTING_ANIMAL_ENERGY, <<>>)

\* split_animals is the only caller of mutate, on the genome of an animal
\* that fetched a Split word: the parent of a call is never empty.
MutateCall ==
    /\ generation < MaxChain
    /\ Len(genome) <= MaxParentLen
    /\ genome # <<>>
    /\ \E m \in mutate(genome) :
            /\ genome' = m.words
            /\ new_words' = m.new_words
            /\ parent' = m.self
    /\ generation' = generation + 1
    /\ UNCHANGED <<other, executor, animal, transform, sensors, plants, status, pc,
                   should_split, should_despawn, ticks, drains>>

NextMutate == MutateCall

SpecMutate == InitMutate /\ [][NextMutate]_vars

----------------------------------------------------------------------------
(* balance_control_flow on the word sequences mutate can hand to it         *)

MaxBalanceLen == 4

\* new_words is never empty when balance_control_flow is called, and is
\* otherwise any sequence (every word can be kept, replaced or doubled).
BalanceInputs == SeqsUpTo(MutationAlphabet, MaxBalanceLen) \ {<<>>}

InitBalance ==
    \E words \in BalanceInputs : Fresh(words, STARTING_ANIMAL_ENERGY, <<>>)

\* Self::balance_control_flow(&mut new_words) and the genome built from it.
BalanceCall ==
    /\ generation = 0
    /\ new_words' = genome
    /\ genome' = balance_control_flow(genome)
    /\ generation' = 1
    /\ UNCHANGED <<other, executor, animal, transform, sensors, plants, status,
                   pc, should_split, should_despawn, parent, ticks, drains>>

NextBalance == BalanceCall

SpecBalance == InitBalance /\ [][NextBalance]_vars

----------------------------------------------------------------------------
(* A well-fed animal run for many ticks, so that its stack fills up        *)

DeepGenomes ==
    {<<PushFloat(3 * FloatScale)>>,
     <<PushFloat(3 * FloatScale), W("Dup")>>,
     <<PushBool(TRUE), PushFloat(0), W("Over")>>,
     <<W("Energy"), PushBool(FALSE), W("Swap")>>}

InitDeep ==
    \E words \in DeepGenomes : Fresh(words, STARTING_ANIMAL_ENERGY, <<>>)

DeepTickStart == ticks < MaxDeepTicks /\ BeginTick

NextDeep ==
    \/ DeepTickStart
    \/ Step
    \/ TickEnd

SpecDeep == InitDeep /\ [][NextDeep]_vars

----------------------------------------------------------------------------
(* Ticks of every short program over the control-flow words, and of every  *)
(* short program over the label words                                      *)

ControlAlphabet ==
    {W("If"), W("Else"), W("Then"), PushBool(TRUE), PushBool(FALSE)}

ControlGenomes == SeqsUpTo(ControlAlphabet, MaxControlLen) \ {<<>>}

LabelAlphabet ==
    {W(op) : op \in LabelOps \cup JumpOps \cup {"Nop"}}

LabelGenomes == SeqsUpTo(LabelAlphabet, MaxLabelLen) \ {<<>>}

InitControl ==
    \E words \in ControlGenomes \cup LabelGenomes :
        Fresh(words, STARTING_ANIMAL_ENERGY, <<>>)

NextControl ==
    \/ TickStart
    \/ Step
    \/ TickEnd

SpecControl == InitControl /\ [][NextControl]_vars

----------------------------------------------------------------------------
(* Ticks of every binary numeric word on two literals, and of the example  *)
(* program at every energy                                                 *)

\* -3.0, 0.0, 0.001, 0.002, 3.0
ArithValues == {-3 * FloatScale, 0, 1, 2, 3 * FloatScale}

ArithGenomes ==
    {<<PushFloat(a), PushFloat(b), W(op)>> :
        a \in ArithValues, b \in ArithValues, op \in ArithOps \cup CompareOps}

InitArith ==
    \/ \E words \in ArithGenomes : Fresh(words, STARTING_ANIMAL_ENERGY, <<>>)
    \/ \E energy \in 0..MaxExampleEnergy : Fresh(Example, energy, <<>>)

NextArith ==
    \/ TickStart
    \/ Step
    \/ TickEnd

SpecArith == InitArith /\ [][NextArith]_vars

----------------------------------------------------------------------------
(* Two animals in one world, processed by execute_genomes in either order  *)

PairGenomes ==
    {<<PushFloat(3 * FloatScale), W("Dup")>>,
     <<PushBool(TRUE), W("If"), W("Else"), W("Then")>>,
     <<W("Label0"), W("Jump0")>>,
     <<W("Eat"), W("Energy")>>}

PairEnergies == {3, 10}

InitPair ==
    \E a \in PairGenomes, b \in PairGenomes :
    \E ea \in PairEnergies, eb \in PairEnergies :
    \E pl \in {<<>>, <<Plant(25, 4 * FloatScale)>>} :
        /\ FreshAnimal(a, ea, pl)
        /\ other = Entity(b, new(eb), [energy |-> eb], [x |-> 0, angle |-> 0],
                          no_sensors, "alive", 0)

NextPair ==
    \/ TickStart
    \/ Step
    \/ TickEnd
    \/ NextEntity

SpecPair == InitPair /\ [][NextPair]_vars

----------------------------------------------------------------------------
(* A reproducing animal and its two offspring                              *)

SplitGenomes == {<<W("Split")>>, <<W("Nop"), W("Split")>>}

\* Energies around SPLIT_ENERGY_COST: too little, just enough, and what
\* leaves an even and an odd remainder.
SplitEnergies ==
    {SPLIT_ENERGY_COST - 1, SPLIT_ENERGY_COST, SPLIT_ENERGY_COST + 2,
     SPLIT_ENERGY_COST + 3}

InitSplit ==
    \E words \in SplitGenomes, energy \in SplitEnergies :
        Fresh(words, energy, <<>>)

NextSplit ==
    \/ TickStart
    \/ Step
    \/ TickEnd
    \/ SplitInTwo
    \/ Metabolism
    \/ RemoveDead
    \/ NextEntity

SpecSplit == InitSplit /\ [][NextSplit]_vars

\* The same world with the systems at work on the first offspring only
\* once the parent is gone.
NextMarked ==
    \/ TickStart
    \/ Step
    \/ TickEnd
    \/ SplitInTwo
    \/ Metabolism
    \/ RemoveDead

SpecMarked == InitSplit /\ [][NextMarked]_vars

\* The states in which SplitInTwo can be taken: its query finds the parent.
SplitDue ==
    /\ pc = "idle"
    /\ status = "pending"
    /\ generation < MaxGenerations
    /\ other = NoEntity

\* The systems run in every frame of a running simulation: the loop of
\* execute_genomes runs to its end, and split_animals gets its turn
\* (weak fairness of SplitInTwo, with its enabling condition written out).
FairMarked ==
    /\ SpecMarked
    /\ WF_vars(Step)
    /\ WF_vars(TickEnd)
    /\ ([]<>(~SplitDue) \/ []<><<SplitInTwo>>_vars)

----------------------------------------------------------------------------
(* Ticks of an eating animal among plants of every energy and position     *)

EatGenomes ==
    {<<W("Eat")>>, <<W("Eat"), W("Nop")>>, <<W("Nop"), W("Eat"), W("Eat")>>}

\* Plants of 5, 25 and 45 units, 4.0 ahead, 8.0 behind, and 12.0 ahead (out
\* of reach).
EatPlants ==
    {Plant(e, x) : e \in {5, 25, 45},
                   x \in {4 * FloatScale, -8 * FloatScale, 12 * FloatScale}}

InitEat ==
    \E words \in EatGenomes, energy \in PairEnergies :
    \E pl \in SeqsUpTo(EatPlants, MaxPlants) : Fresh(words, energy, pl)

NextEat ==
    \/ TickStart
    \/ Step
    \/ TickEnd

SpecEat == InitEat /\ [][NextEat]_vars

----------------------------------------------------------------------------
(* Properties                                                              *)

executed == executor.instructions_executed_this_frame
budget == executor.max_instructions_per_frame
pointer == executor.instruction_pointer

\* C1 (SpecMutate): a genome returned by Genome::mutate holds as many If
\* words as Then words.
C1_MutateBalancesIfThen ==
    generation > 0 => Count(genome, "If") = Count(genome, "Then")

\* C1 witness: mutate returned a genome with an If after its new_words held
\* more Then than If words, so that Then words had to be removed.
C1_Witness ==
    /\ generation > 0
    /\ Count(new_words, "Then") > Count(new_words, "If")
    /\ Count(genome, "If") >= 1

\* C2 (SpecMutate): a genome returned by Genome::mutate has at least one
\* word.  Violated: new_words made only of Then words is emptied by
\* balance_control_flow, which runs after the emptiness check.
C2_MutateNeverEmpty == generation > 0 => Len(genome) >= 1

\* C3 (Spec): a tick of execute_genomes never faults, for any genome that
\* arises through Genome::mutate.  Violated: the fetch from an empty genome
\* indexes an empty Vec.
C3_TickNeverFaults == status # "panicked"

OperandOps ==
    {"Dup", "Swap", "Over", "Rot"} \cup ArithOps \cup CompareOps \cup LogicOps
    \cup MoveOps

IsFloat(val) == val.t = "Float"
IsBool(val) == val.t = "Bool"

\* Whether the stack holds the operands the word's stack effect names.
HasOperands(op, stack) ==
    LET n == Len(stack) IN
    CASE op = "Dup" -> n >= 1
      [] op \in {"Swap", "Over"} -> n >= 2
      [] op = "Rot" -> n >= 3
      [] op \in ArithOps \cup CompareOps ->
            n >= 2 /\ IsFloat(stack[n]) /\ IsFloat(stack[n - 1])
      [] op \in {"And", "Or"} ->
            n >= 2 /\ IsBool(stack[n]) /\ IsBool(stack[n - 1])
      [] op = "Not" -> n >= 1 /\ IsBool(stack[n])
      [] op \in MoveOps -> n >= 1 /\ IsFloat(stack[n])

\* The loop is about to execute an operand-consuming word whose operands
\* are missing or of the wrong type.
Starved ==
    /\ InLoop
    /\ pointer < Len(genome)
    /\ genome[pointer + 1].op \in OperandOps
    /\ ~HasOperands(genome[pointer + 1].op, executor.stack)

\* C4 (Spec): an operand-consuming word executed without its operands
\* leaves the stack as it was and advances the pointer by one with
\* wraparound.  Violated: the pops are made before their results are looked
\* at, so the values popped are lost.
C4_SkipLeavesStack ==
    [][Starved =>
        /\ executor'.stack = executor.stack
        /\ executor'.instruction_pointer = (pointer + 1) % Len(genome)]_vars

\* C5 (SpecDeep): the operand stack never holds more than 256 values.
\* Violated: Dup and Over push with Vec::push, without the capacity check.
C5_StackAtMostCapacity == Len(executor.stack) <= STACK_CAPACITY

\* C6 (Spec): in every state, instructions_executed_this_frame <=
\* max_instructions_per_frame <= 10.
C6_BudgetBound ==
    executed <= budget /\ budget <= MAX_INSTRUCTIONS_PER_FRAME

\* C6 witness: inside a tick the whole budget of 10 is used up while the
\* animal's energy is above 10.
C6_Witness ==
    /\ pc = "loop"
    /\ executed = MAX_INSTRUCTIONS_PER_FRAME
    /\ animal.energy > MAX_INSTRUCTIONS_PER_FRAME

\* C7 (FairSpec): for a non-empty genome the loop of a tick terminates.
C7_LoopTerminates == (pc = "loop" /\ genome # <<>>) ~> (pc = "idle")

\* C7 witness: a tick of the jump cycle Label0 Jump0 has ended after 10
\* instructions.
C7_Witness ==
    /\ genome = <<W("Label0"), W("Jump0")>>
    /\ pc = "idle"
    /\ ticks > 0
    /\ executed = MAX_INSTRUCTIONS_PER_FRAME

\* C8 (Spec): at construction and at the start of every tick,
\* max_instructions_per_frame is min(energy, 10).
C8_BudgetIsMinOfEnergy ==
    /\ budget = IF animal.energy < 10 THEN animal.energy ELSE 10
    /\ [][(pc' = "loop" /\ pc = "idle") \/ generation' # generation =>
            executor'.max_instructions_per_frame =
                IF animal'.energy < 10 THEN animal'.energy ELSE 10]_vars

\* C8 witness: a second tick has just started with budget 10 for an animal
\* whose energy was below 10 at its first tick and has grown since.
C8_Witness ==
    /\ pc = "loop"
    /\ ticks = 2
    /\ executed = 0
    /\ generation = 0
    /\ budget = 10
    /\ animal.energy > 12

\* C9 (Spec): between the end of one tick and the first instruction of the
\* next, the instruction pointer and the stack do not change.
C9_TickBoundaryKeepsPointerAndStack ==
    [][pc = "idle" /\ generation' = generation =>
        /\ executor'.instruction_pointer = pointer
        /\ executor'.stack = executor.stack]_vars

\* C9 witness: a second tick starts in the middle of the genome with a
\* value on the stack.
C9_Witness ==
    /\ pc = "loop"
    /\ ticks = 2
    /\ executed = 0
    /\ generation = 0
    /\ pointer > 0
    /\ executor.stack # <<>>

\* C10 (Spec): at every fetch 0 <= instruction_pointer < N, N the length of
\* the genome.  Violated for the empty genome, where the wrapped pointer 0
\* is not below N = 0.
C10_FetchInBounds ==
    InLoop =>
        /\ 0 <= wrapped(executor, Len(genome)).instruction_pointer
        /\ wrapped(executor, Len(genome)).instruction_pointer < Len(genome)

\* C10, for non-empty genomes: the fetch is in bounds, the pointer is never
\* found at or beyond N, and a word at N - 1 that does not jump is followed
\* by the word at 0.
C10_NonEmptyCircular ==
    /\ [](genome # <<>> => pointer < Len(genome))
    /\ [][InLoop /\ genome # <<>> /\ pointer = Len(genome) - 1
            /\ executed' = executed + 1
            /\ execute_word(genome[pointer + 1], executor, animal, sensors,
                            transform, plants).result # "Jump"
          => executor'.instruction_pointer = 0]_vars

\* C11 (Spec): an animal whose energy is 0 when execute_genomes processes
\* it executes nothing, is never marked for reproduction, and is despawned
\* by the deferred actions of that tick.
C11_ZeroEnergyIsRemoved ==
    [][pc = "loop" /\ animal.energy = 0 =>
        /\ ~should_split
        /\ ~should_split'
        /\ status' = "despawned"]_vars

\* C11 witness: an animal that ran one instruction with its last unit of
\* energy and then lost it to metabolism is despawned by its second tick,
\* with its pointer in the middle of the genome and a value on its stack.
C11_Witness ==
    /\ status = "despawned"
    /\ ticks = 2
    /\ budget = 0
    /\ pointer > 0
    /\ executor.stack # <<>>

\* The word the loop is about to fetch.
Fetched == genome[wrapped(executor, Len(genome)).instruction_pointer + 1]

\* C12 (Spec): PendingSplit is inserted only for an animal that fetched a
\* Split word while its energy was at least SPLIT_ENERGY_COST; that Split
\* counts as one executed instruction and nothing more is executed in that
\* tick, so that a tick makes at most one reproduction request.
C12_SplitRequest ==
    /\ [][status' = "pending" /\ status # "pending" => should_split]_vars
    /\ [][should_split' /\ ~should_split =>
            /\ InLoop
            /\ genome # <<>>
            /\ Fetched.op = "Split"
            /\ animal.energy >= SPLIT_ENERGY_COST
            /\ executed' = executed + 1]_vars
    /\ [][pc = "loop" /\ should_split =>
            /\ executor' = executor
            /\ pc' = "idle"]_vars

\* C12 witness: a tick was ended by a Split after other words, with budget
\* left over, and the animal is marked for reproduction.
C12_Witness ==
    /\ status = "pending"
    /\ pc = "idle"
    /\ executed >= 2
    /\ executed < budget

\* The position the loop is about to fetch from.
FetchPos == wrapped(executor, Len(genome)).instruction_pointer

\* C13 (SpecControl): an If that has a jump-table entry and finds a boolean
\* on top of the stack pops it; on true the pointer goes to if + 1, on false
\* to else + 1 when the entry has an Else and to then + 1 otherwise, modulo
\* the genome length.
C13_IfBranches ==
    [][\A k \in 1..Len(executor.jump_table) :
        LET entry == executor.jump_table[k]
            N == Len(genome)
        IN  /\ InLoop
            /\ genome # <<>>
            /\ Fetched.op = "If"
            /\ entry.if_pos = FetchPos
            /\ executor.stack # <<>>
            /\ IsBool(Top(executor.stack))
            => /\ executor'.stack = Front(executor.stack)
               /\ executor'.instruction_pointer =
                    IF Top(executor.stack).v = 1 THEN (entry.if_pos + 1) % N
                    ELSE IF entry.else_pos # NONE THEN (entry.else_pos + 1) % N
                    ELSE (entry.then_pos + 1) % N]_vars

\* C13 witness: an If with an Else has popped false and resumed one past
\* the Else.
C13_Witness ==
    /\ genome = <<PushBool(FALSE), W("If"), PushBool(TRUE), W("Else"), W("Then")>>
    /\ pc = "loop"
    /\ ticks = 1
    /\ executed = 2
    /\ pointer = 4
    /\ executor.stack = <<>>

\* The entries of the jump table whose If ... Then pair encloses position p.
Enclosing(p) ==
    {k \in 1..Len(executor.jump_table) :
        /\ executor.jump_table[k].if_pos < p
        /\ p < executor.jump_table[k].then_pos}

\* The innermost of them: the pair position p lies directly inside.
Innermost(p) ==
    CHOOSE k \in Enclosing(p) :
        \A j \in Enclosing(p) :
            executor.jump_table[j].if_pos <= executor.jump_table[k].if_pos

\* C14 (SpecControl): an Else executed directly inside a matched
\* If ... Then pair sets the pointer to one past that pair's Then, also when
\* the If has more than one Else.  Violated: the table keeps only the last
\* Else of an If, an earlier Else finds no entry and execution continues
\* into the words between it and the Then.
C14_ElseSkipsToThen ==
    [][InLoop /\ genome # <<>> /\ Fetched.op = "Else" /\ Enclosing(FetchPos) # {}
        => executor'.instruction_pointer =
             (executor.jump_table[Innermost(FetchPos)].then_pos + 1)
                % Len(genome)]_vars

\* C14, for an Else that is the last Else directly inside its pair (the one
\* the table records): the pointer is set to one past the pair's Then.
C14_LastElseSkipsToThen ==
    [][\A k \in 1..Len(executor.jump_table) :
        InLoop /\ genome # <<>> /\ Fetched.op = "Else"
        /\ executor.jump_table[k].else_pos = FetchPos
        => executor'.instruction_pointer =
             (executor.jump_table[k].then_pos + 1) % Len(genome)]_vars

\* The positions an entry of the jump table names.
Positions(entry) ==
    {entry.if_pos, entry.then_pos} \cup
    (IF entry.else_pos # NONE THEN {entry.else_pos} ELSE {})

IsWord(words, p, op) == p \in 0..(Len(words) - 1) /\ words[p + 1].op = op

\* Whether table pairs each Then of words with the innermost still-open If.
WellNested(words, table) ==
    LET K == 1..Len(table)
        HasIf(p) == \E m \in K : table[m].if_pos = p
        HasThen(p) == \E m \in K : table[m].then_pos = p
    IN
    /\ \A k \in K :
        LET i == table[k].if_pos
            e == table[k].else_pos
            t == table[k].then_pos
        IN  /\ IsWord(words, i, "If")
            /\ IsWord(words, t, "Then")
            /\ i < t
            /\ \A j \in (i + 1)..(t - 1) :
                /\ IsWord(words, j, "If") =>
                    \E m \in K : table[m].if_pos = j /\ table[m].then_pos < t
                /\ IsWord(words, j, "Then") =>
                    \E m \in K : table[m].then_pos = j /\ table[m].if_pos > i
            /\ e # NONE =>
                /\ IsWord(words, e, "Else")
                /\ i < e
                /\ e < t
                /\ ~\E m \in K : /\ i < table[m].if_pos
                                 /\ table[m].if_pos < e
                                 /\ e < table[m].then_pos
    /\ \A k, m \in K : k # m => Positions(table[k]) \cap Positions(table[m]) = {}
    /\ \A q \in 0..(Len(words) - 1) :
        IsWord(words, q, "Then") /\ ~HasThen(q) =>
            \A j \in 0..(q - 1) :
                IsWord(words, j, "If") =>
                    \E m \in K : table[m].if_pos = j /\ table[m].then_pos < q

\* C15 (SpecControl): the jump table built at the start of a tick pairs
\* each Then with the innermost still-open If: every entry is an If before a
\* Then, every If between them has its own entry closed before that Then,
\* an entry's Else lies between them outside any nested pair, and no
\* position occurs in two entries.
C15_JumpTableNesting == ticks > 0 => WellNested(genome, executor.jump_table)

\* C15 witness: a table with a pair nested in the if-branch of a pair that
\* has an Else.
C15_Witness ==
    /\ ticks > 0
    /\ \E k, m \in 1..Len(executor.jump_table) :
        /\ executor.jump_table[k].if_pos < executor.jump_table[m].if_pos
        /\ executor.jump_table[m].then_pos < executor.jump_table[k].else_pos
        /\ executor.jump_table[k].else_pos # NONE

\* C16 (SpecControl): rebuilding the jump table and the label table of an
\* unchanged genome at the start of a later tick leaves both as they were,
\* wherever the pointer stands and whatever the stack holds.
C16_RebuildIsIdempotent ==
    [][pc = "idle" /\ pc' = "loop" /\ ticks >= 1 =>
        /\ executor'.jump_table = executor.jump_table
        /\ executor'.label_table = executor.label_table]_vars

\* C16 witness: a second tick has started with a non-empty jump table, the
\* pointer in mid-genome and a value on the stack.
C16_Witness ==
    /\ pc = "loop"
    /\ ticks = 2
    /\ executed = 0
    /\ executor.jump_table # <<>>
    /\ pointer > 0
    /\ executor.stack # <<>>

\* Position of the first occurrence of Label k (k = 1..4 for Label0..Label3)
\* in words, NONE when there is none.
FirstLabel(words, k) ==
    LET S == {p \in 0..(Len(words) - 1) : LabelIndex(words[p + 1].op) = k}
    IN  IF S = {} THEN NONE ELSE CHOOSE p \in S : \A q \in S : p <= q

\* C17 (SpecControl): after build_label_table each slot holds the position
\* of the first occurrence of its label, and is empty exactly when the
\* genome has no such label.  Violated: every occurrence overwrites the
\* slot, which ends up holding the last one.
C17_LabelTableFirstOccurrence ==
    ticks > 0 =>
        \A k \in 1..4 : executor.label_table[k] = FirstLabel(genome, k)

\* C17, the part that holds: a slot is empty exactly when the genome has no
\* such label, and otherwise holds a position of that label.
C17_LabelTableSlots ==
    ticks > 0 =>
        \A k \in 1..4 :
            /\ executor.label_table[k] = NONE <=> FirstLabel(genome, k) = NONE
            /\ executor.label_table[k] # NONE =>
                LabelIndex(genome[executor.label_table[k] + 1].op) = k

\* The stack without its top two values.
Below2(stack) == SubSeq(stack, 1, Len(stack) - 2)

\* The loop is about to execute the binary numeric word op on two numeric
\* values: a, and b on top of it.
NumericReady(op) ==
    /\ InLoop
    /\ genome # <<>>
    /\ Fetched.op = op
    /\ HasOperands(op, executor.stack)

\* C18 (SpecArith): Div on numeric a below numeric 0 pops both, pushes
\* numeric 0 and continues as a normal instruction, without a fault.
C18_DivByZeroPushesZero ==
    [][NumericReady("Div") /\ Top(executor.stack).v = 0 =>
        /\ executor'.stack = Append(Below2(executor.stack), Float(0))
        /\ executor'.instruction_pointer = (FetchPos + 1) % Len(genome)
        /\ executed' = executed + 1
        /\ status' = status
        /\ pc' = pc
        /\ ~should_despawn']_vars

\* C18 witness: 3.0 0.0 / has left 0.0 as the only value on the stack.
C18_Witness ==
    /\ genome = <<PushFloat(3 * FloatScale), PushFloat(0), W("Div")>>
    /\ pc = "loop"
    /\ ticks = 1
    /\ executed = 3
    /\ executor.stack = <<Float(0)>>

\* Eq on numeric a and b pushes whether |a - b| is within the tolerance,
\* the tolerance itself counted as within (inclusive) or not.
EqPushes(inclusive) ==
    NumericReady("Eq") =>
        LET n == Len(executor.stack)
            a == executor.stack[n - 1].v
            b == executor.stack[n].v
            d == Abs(a - b)
        IN  executor'.stack =
                Append(Below2(executor.stack),
                       Bool(IF inclusive THEN d <= EQ_TOLERANCE
                            ELSE d < EQ_TOLERANCE))

\* C19 (SpecArith), as claimed: Eq pushes true when |a - b| <= 0.001 and
\* false when |a - b| > 0.001.  Violated: the code tests |a - b| < 0.001,
\* so a difference of exactly 0.001 pushes false.
C19_EqWithinInclusive == [][EqPushes(TRUE)]_vars

\* C19 (SpecArith), amended: Eq pushes true when |a - b| < 0.001 and false
\* when |a - b| >= 0.001.
C19_EqWithinStrict == [][EqPushes(FALSE)]_vars

\* C19 witness: 0.001 0.0 = has pushed false.
C19_Witness ==
    /\ genome = <<PushFloat(1), PushFloat(0), W("Eq")>>
    /\ pc = "loop"
    /\ ticks = 1
    /\ executed = 3
    /\ executor.stack = <<Bool(FALSE)>>

\* The first tick of the example program, begun by a fresh executor, is over.
ExampleTicked == genome = Example /\ ticks = 1 /\ pc = "idle"

\* C20 (SpecArith), as claimed: given budget for them, one tick of the
\* example program produces a forward movement and consumes exactly 4
\* instructions.  Violated: MoveForward is the sixth instruction, and the
\* loop runs until the budget is used up.
C20_ExampleMovesInFour ==
    ExampleTicked /\ budget >= 4 => transform.x > 0 /\ executed = 4

\* C20 (SpecArith), amended: one tick of the example program by an animal
\* of energy e consumes exactly min(e, 10) instructions, and produces a
\* forward movement (of 1.0 * 0.01, once) exactly when e >= 6.
C20_ExampleTick ==
    ExampleTicked =>
        /\ executed = Min(animal.energy, MAX_INSTRUCTIONS_PER_FRAME)
        /\ transform.x = IF animal.energy >= 6 THEN FloatScale \div 100 ELSE 0
        /\ transform.angle = 0

\* C20 witness: the tick of an animal of energy 10 has moved it forward and
\* used 10 instructions.
C20_Witness ==
    /\ ExampleTicked
    /\ animal.energy = 10
    /\ executed = 10
    /\ transform.x > 0

\* The If positions of words that have no entry in the jump table built
\* from words.
OpenIfs(words) ==
    LET table == build_jump_table(new(0), words).jump_table
    IN  {p \in 0..(Len(words) - 1) :
            /\ words[p + 1].op = "If"
            /\ ~\E k \in 1..Len(table) : table[k].if_pos = p}

\* C21 (SpecMutate): in a genome returned by Genome::mutate every If has an
\* entry in the jump table built from it.  Violated: balance_control_flow
\* compares the two counts only, so a Then that precedes its If is counted
\* as closing it.
C21_MutateClosesConditionals == generation > 0 => OpenIfs(genome) = {}

\* C22 (SpecMutate): Genome::mutate leaves the words of the parent as they
\* were, whatever the random choices, and returns the offspring's words as
\* a value of its own.
C22_MutateKeepsParent ==
    [][generation' = generation + 1 => parent' = genome]_vars

\* C22 witness: mutate has returned words that differ from the parent's,
\* and the parent still has its two words.
C22_Witness ==
    /\ generation = 1
    /\ Len(parent) = 2
    /\ genome # parent
    /\ new_words # parent

\* C23 (Spec): an offspring spawned by split_animals starts with a fresh
\* executor: pointer 0, empty stack, no executed instruction and empty
\* tables, whatever the pointer and the stack of its parent are.
C23_OffspringExecutorIsFresh ==
    [][generation' = generation + 1 =>
        /\ executor'.instruction_pointer = 0
        /\ executor'.stack = <<>>
        /\ executor'.instructions_executed_this_frame = 0
        /\ executor'.jump_table = <<>>
        /\ executor'.label_table = <<NONE, NONE, NONE, NONE>>]_vars

\* C23 witness: an offspring has just been spawned (the Split of its parent
\* was the last thing execute_genomes did) and its executor is fresh.
C23_Witness ==
    /\ generation = 1
    /\ status = "alive"
    /\ should_split
    /\ ticks >= 1
    /\ executor = new(animal.energy)

\* C24 (SpecPair): while execute_genomes works on one animal (reset, table
\* builds, every word, deferred actions), the executor of the other animal
\* stays as it is: pointer, stack, counters and tables.
C24_OtherExecutorUntouched ==
    [][pc = "loop" \/ pc' = "loop" => other'.executor = other.executor]_vars

\* C24 witness: the other animal has had a tick that left values on its
\* stack and tables of its own, and this animal is in the middle of a tick
\* with a different stack and different tables.
C24_Witness ==
    /\ pc = "loop"
    /\ executed >= 1
    /\ other.ticks >= 1
    /\ other.executor.stack # <<>>
    /\ executor.stack # <<>>
    /\ executor.stack # other.executor.stack
    /\ executor.jump_table # other.executor.jump_table

\* C25 (SpecEat): within one pass of execute_genomes a plant is changed by
\* at most one Eat: once an Eat has taken from it, no later Eat of the pass
\* transfers from it or despawns it.  Violated: Eat takes the first plant
\* in reach every time, whether or not it was eaten from before.
C25_PlantEatenOncePerTick ==
    [][pc = "loop" /\ pc' = "loop" =>
        \A i \in 1..Len(plants) : plants[i].eaten => plants'[i] = plants[i]]_vars

\* The plants within EAT_DISTANCE of the animal, and the distance of one.
Distance(i) == Abs(plants[i].x - transform.x)
InReach == {i \in 1..Len(plants) : Distance(i) <= EAT_DISTANCE}

\* Eat has taken from plant i and from no other plant.
AteFrom(i) ==
    LET energy_to_transfer == Min(plants[i].energy, EAT_AMOUNT) IN
    /\ animal'.energy = animal.energy + energy_to_transfer
    /\ Len(plants') = Len(plants)
    /\ plants'[i].energy = plants[i].energy - energy_to_transfer
    /\ plants'[i].despawn = (plants[i].despawn \/ plants'[i].energy = 0)
    /\ \A j \in 1..Len(plants) : j # i =>
        /\ plants'[j].energy = plants[j].energy
        /\ plants'[j].despawn = plants[j].despawn

\* C26 (SpecEat): with plants within EAT_DISTANCE, Eat takes
\* min(plant energy, EAT_AMOUNT) from the nearest of them and from no other,
\* and has that plant removed when it is left with no energy.  Violated:
\* the plant taken is the first in reach in the query's iteration order.
C26_EatTakesNearest ==
    [][InLoop /\ genome # <<>> /\ Fetched.op = "Eat" /\ InReach # {} =>
        \E i \in InReach :
            /\ \A j \in InReach : Distance(i) <= Distance(j)
            /\ AteFrom(i)]_vars

\* C26, with the plant the code takes: the first plant in reach in
\* iteration order gives up min(energy, EAT_AMOUNT) and is despawned when
\* left with nothing; no other plant changes.
C26_EatTakesFirstInReach ==
    [][InLoop /\ genome # <<>> /\ Fetched.op = "Eat" /\ InReach # {} =>
        AteFrom(first_in_reach(plants, transform))]_vars

\* C27 (Spec): an If executed on an empty stack or with a numeric value on
\* top is a no-op: the pointer advances to the next position and the stack
\* is unchanged.  Violated: the missing condition counts as false, so an If
\* with a table entry jumps to its else/then target, and a numeric value on
\* top is popped.
C27_IfWithoutConditionIsNoop ==
    [][/\ InLoop
       /\ genome # <<>>
       /\ Fetched.op = "If"
       /\ (executor.stack = <<>> \/ IsFloat(Top(executor.stack)))
       => /\ executor'.stack = executor.stack
          /\ executor'.instruction_pointer = (FetchPos + 1) % Len(genome)]_vars

\* C28 (Spec): a Split fetched with energy below SPLIT_ENERGY_COST is a
\* no-op: no reproduction mark, stack and energy unchanged, the pointer
\* advanced by one with wraparound, one instruction counted, and the loop
\* goes on.
C28_SplitWithoutEnergyIsNoop ==
    [][/\ InLoop
       /\ genome # <<>>
       /\ Fetched.op = "Split"
       /\ animal.energy < SPLIT_ENERGY_COST
       => /\ ~should_split'
          /\ status' = status
          /\ executor'.stack = executor.stack
          /\ animal' = animal
          /\ executor'.instruction_pointer = (FetchPos + 1) % Len(genome)
          /\ executed' = executed + 1
          /\ pc' = "loop"]_vars

\* C28 witness: an animal of energy 3 has run the genome [Split] three
\* times in one tick and is still alive and unmarked.
C28_Witness ==
    /\ genome = <<W("Split")>>
    /\ animal.energy = 3
    /\ executed = 3
    /\ pc = "idle"
    /\ status = "alive"
    /\ ticks = 1

\* C29 (SpecControl): Jump k sets the pointer to the position recorded for
\* Label k, so that the next word fetched is that label, when the genome
\* holds a Label k, and advances by one otherwise; the stack is unchanged
\* and one instruction is counted either way.
C29_JumpToLabel ==
    [][InLoop /\ genome # <<>> /\ Fetched.op \in JumpOps =>
        LET k == JumpIndex(Fetched.op) IN
        /\ executor'.stack = executor.stack
        /\ executed' = executed + 1
        /\ IF FirstLabel(genome, k) # NONE
           THEN /\ executor'.instruction_pointer = executor.label_table[k]
                /\ LabelIndex(genome[executor'.instruction_pointer + 1].op) = k
           ELSE executor'.instruction_pointer = (FetchPos + 1) % Len(genome)]_vars

\* C29 witness: Jump1 at the end of the genome has set the pointer to the
\* Label1 in its middle.
C29_Witness ==
    /\ genome = <<W("Nop"), W("Label1"), W("Jump1")>>
    /\ pc = "loop"
    /\ executed = 3
    /\ pointer = 1

\* C30 (SpecControl): an If that is not in the jump table and an Else that
\* is in no entry advance the pointer by exactly one, whatever the condition
\* popped; neither jumps nor faults.
C30_UnmatchedIfElseAdvance ==
    [][/\ InLoop
       /\ genome # <<>>
       /\ \/ /\ Fetched.op = "If"
             /\ \A k \in 1..Len(executor.jump_table) :
                    executor.jump_table[k].if_pos # FetchPos
          \/ /\ Fetched.op = "Else"
             /\ \A k \in 1..Len(executor.jump_table) :
                    executor.jump_table[k].else_pos # FetchPos
       => /\ executor'.instruction_pointer = (FetchPos + 1) % Len(genome)
          /\ executed' = executed + 1
          /\ status' = status
          /\ ~should_despawn']_vars

\* C30 witness: an If without a Then popped false after a closed pair, and
\* the pointer moved to the next word.
C30_Witness ==
    /\ genome = <<W("If"), W("Then"), PushBool(FALSE), W("If"), W("Else")>>
    /\ pc = "loop"
    /\ ticks = 1
    /\ executed = 3
    /\ pointer = 4
    /\ executor.stack = <<>>

----------------------------------------------------------------------------
(* Claims C31..C39                                                         *)

\* C31 (Spec): every iteration of the while loop of execute_genomes that
\* fetches a word adds exactly one to instructions_executed_this_frame,
\* whether the word continues, jumps, is skipped or is a Split (taken or
\* refused); after a jump the pointer is the target modulo the length, and
\* otherwise it is the fetch position plus one modulo the length.
C31_IterationCountsOne ==
    [][InLoop /\ genome # <<>> =>
        LET out == execute_word(Fetched, wrapped(executor, Len(genome)),
                                animal, sensors, transform, plants)
        IN  /\ executed' = executed + 1
            /\ executor'.instruction_pointer =
                    IF Fetched.op # "Split" /\ out.result = "Jump"
                    THEN out.target % Len(genome)
                    ELSE (FetchPos + 1) % Len(genome)]_vars

\* C31 witness: in the second tick of Label0 Jump0 the jump was counted
\* once and the pointer is on the label.
C31_Witness ==
    /\ genome = <<W("Label0"), W("Jump0")>>
    /\ pc = "loop"
    /\ ticks = 1
    /\ executed = 2
    /\ pointer = 0

\* nw is made of the words of p in order, each left out, kept or replaced
\* by a random word, and then present once or twice in a row.
RECURSIVE IsMutationOf(_, _)
IsMutationOf(nw, p) ==
    IF p = <<>> THEN nw = <<>>
    ELSE \E k \in 0..Min(2, Len(nw)) :
            /\ k >= 1 => nw[1] = Head(p) \/ nw[1] \in RandomWords
            /\ k = 2 => nw[2] = nw[1]
            /\ IsMutationOf(SubSeq(nw, k + 1, Len(nw)), Tail(p))

\* C32 (SpecMutate): the words Genome::mutate hands to balance_control_flow
\* are, in the order of the parent's words, zero, one or two adjacent equal
\* copies of each parent word or of the random word that replaced it; there
\* are at most twice as many of them as the parent has.
C32_MutationShape ==
    generation > 0 =>
        /\ IsMutationOf(new_words, parent)
        /\ Len(new_words) <= 2 * Len(parent)

\* C32 witness: both words of the parent were replaced and duplicated.
C32_Witness ==
    /\ generation = 1
    /\ parent = <<W("Else"), W("Else")>>
    /\ new_words = <<W("Nop"), W("Nop"), W("If"), W("If")>>

\* The words of a sequence that are not Then, in order.
NonThen(words) == SelectSeq(words, LAMBDA w : w.op # "Then")

\* The sequence without its Then words after the n-th one.
RECURSIVE KeepThens(_, _)
KeepThens(words, n) ==
    IF words = <<>> THEN <<>>
    ELSE IF Head(words).op # "Then"
         THEN <<Head(words)>> \o KeepThens(Tail(words), n)
         ELSE IF n > 0
              THEN <<Head(words)>> \o KeepThens(Tail(words), n - 1)
              ELSE KeepThens(Tail(words), n)

\* C33 (SpecBalance): balance_control_flow appends the missing Then words
\* at the end when Then is deficient, removes the last Then words when Then
\* is in excess, and returns the sequence unchanged when the counts are
\* equal; the words that are not Then are the same, in the same order.
C33_BalanceOnlyMovesThen ==
    generation > 0 =>
        LET ifs == Count(new_words, "If")
            thens == Count(new_words, "Then")
        IN  /\ NonThen(genome) = NonThen(new_words)
            /\ thens < ifs =>
                    genome = new_words \o [k \in 1..(ifs - thens) |-> W("Then")]
            /\ thens > ifs => genome = KeepThens(new_words, ifs)
            /\ thens = ifs => genome = new_words

\* C33 witness: one of two Then words was in excess, and the one removed
\* was not the last word of the sequence.
C33_Witness ==
    /\ generation > 0
    /\ new_words = <<W("Then"), W("If"), W("Then"), W("Else")>>
    /\ genome = <<W("Then"), W("If"), W("Else")>>

\* The value a binary numeric word leaves for a below b (b # 0 for Div).
BinaryResult(op, a, b) ==
    CASE op = "Add" -> Float(a + b)
      [] op = "Sub" -> Float(a - b)
      [] op = "Mul" -> Float((a * b) \div FloatScale)
      [] op = "Div" -> Float((a * FloatScale) \div b)
      [] op = "Lt" -> Bool(a < b)
      [] op = "Gt" -> Bool(a > b)

\* C34 (SpecArith): on a stack ending in numeric a then numeric b, each of
\* Add, Sub, Mul, Div (b not zero), Lt, Gt replaces the two by a + b, a - b,
\* a * b, a / b, a < b, a > b: the deeper value is the left operand and the
\* stack is one shorter.
C34_BinaryNumericWords ==
    [][\A op \in {"Add", "Sub", "Mul", "Div", "Lt", "Gt"} :
        LET n == Len(executor.stack) IN
        NumericReady(op) /\ (op = "Div" => executor.stack[n].v # 0) =>
            /\ executor'.stack =
                    Append(Below2(executor.stack),
                           BinaryResult(op, executor.stack[n - 1].v,
                                        executor.stack[n].v))
            /\ Len(executor'.stack) = n - 1]_vars

\* C34 witness: -3.0 0.002 - has left -3.002.
C34_Witness ==
    /\ genome = <<PushFloat(-3 * FloatScale), PushFloat(2), W("Sub")>>
    /\ pc = "loop"
    /\ ticks = 1
    /\ executed = 3
    /\ executor.stack = <<Float(-3 * FloatScale - 2)>>

\* C35 (Spec): on a stack with enough values Dup copies the top, Drop
\* removes it, Swap exchanges the top two, Over copies the second onto the
\* top and Rot brings the third to the top, each leaving the values below
\* as they were; Drop on an empty stack leaves it empty.
C35_StackWords ==
    [][InLoop /\ genome # <<>> =>
        LET st == executor.stack
            n == Len(st)
            op == Fetched.op
        IN  /\ op = "Dup" /\ n >= 1 => executor'.stack = Append(st, st[n])
            /\ op = "Drop" /\ n >= 1 => executor'.stack = Front(st)
            /\ op = "Drop" /\ n = 0 => executor'.stack = <<>>
            /\ op = "Swap" /\ n >= 2 =>
                    executor'.stack = Below2(st) \o <<st[n], st[n - 1]>>
            /\ op = "Over" /\ n >= 2 => executor'.stack = Append(st, st[n - 1])
            /\ op = "Rot" /\ n >= 3 =>
                    executor'.stack =
                        SubSeq(st, 1, n - 3) \o <<st[n - 1], st[n], st[n - 2]>>]_vars

\* C35 witness: on its second pass 3.0 true rot found 3.0 true 3.0 true and
\* brought the third value, true, to the top, above the 3.0 at the bottom.
C35_Witness ==
    /\ genome = <<PushFloat(3 * FloatScale), PushBool(TRUE), W("Rot")>>
    /\ pc = "loop"
    /\ executed = 6
    /\ executor.stack =
            <<Float(3 * FloatScale), Float(3 * FloatScale), Bool(TRUE), Bool(TRUE)>>

\* C36 (SpecEat): max_instructions_per_frame does not change while a tick is
\* under way, whatever the words executed do to the animal's energy; it is
\* only written by the reset at the start of a tick.
C36_BudgetFixedDuringTick ==
    [][pc = "loop" => budget' = budget]_vars

\* C36 witness: an animal that started its tick with energy 3 has eaten and
\* holds more energy than its budget of 3, which it has used up.
C36_Witness ==
    /\ pc = "loop"
    /\ budget = 3
    /\ executed = 3
    /\ animal.energy > STARTING_ANIMAL_ENERGY

\* C37 (SpecSplit): split_animals turns a marked parent of energy e into
\* two animals, each with energy floor((e - SPLIT_ENERGY_COST) / 2), or 0
\* when e is below the cost, and no marked animal is left; with e at least
\* the cost the two together hold at most e - SPLIT_ENERGY_COST.
C37_SplitSharesEnergy ==
    [][status = "pending" /\ generation' = generation + 1 =>
        LET e == animal.energy
            each == IF e >= SPLIT_ENERGY_COST
                    THEN (e - SPLIT_ENERGY_COST) \div 2 ELSE 0
        IN  /\ other = NoEntity
            /\ other' # NoEntity
            /\ animal'.energy = each
            /\ other'.animal.energy = each
            /\ status' = "alive"
            /\ other'.status = "alive"
            /\ e >= SPLIT_ENERGY_COST =>
                    animal'.energy + other'.animal.energy
                        <= e - SPLIT_ENERGY_COST]_vars

\* C37 witness: a parent of energy 13 has left two offspring of energy 1.
C37_Witness ==
    /\ generation = 1
    /\ drains = 0
    /\ animal.energy = 1
    /\ other # NoEntity
    /\ other.animal.energy = 1
    /\ status = "alive"
    /\ ticks = 1

RECURSIVE PlantEnergy(_)
PlantEnergy(pl) ==
    IF pl = <<>> THEN 0 ELSE Head(pl).energy + PlantEnergy(Tail(pl))

\* C39 (SpecEat): an Eat leaves the sum of the animal's and the plants'
\* energy as it was and counts as one instruction; with a plant within
\* EAT_DISTANCE the animal gains what one plant in reach loses, the smaller
\* of that plant's energy and EAT_AMOUNT; with none, no energy changes.
C39_EatConservesEnergy ==
    [][InLoop /\ genome # <<>> /\ Fetched.op = "Eat" =>
        /\ animal'.energy + PlantEnergy(plants')
                = animal.energy + PlantEnergy(plants)
        /\ executed' = executed + 1
        /\ InReach = {} => animal' = animal /\ plants' = plants
        /\ InReach # {} =>
                \E i \in InReach :
                    LET amount == Min(plants[i].energy, EAT_AMOUNT) IN
                    /\ animal'.energy - animal.energy = amount
                    /\ plants[i].energy - plants'[i].energy = amount]_vars

\* C39 witness: an animal of energy 3 has eaten all 5 units of the plant
\* 4.0 ahead of it, which is now empty and about to be despawned.
C39_Witness ==
    /\ genome = <<W("Eat")>>
    /\ pc = "loop"
    /\ executed = 1
    /\ animal.energy = 8
    /\ Len(plants) = 1
    /\ plants[1].energy = 0
    /\ plants[1].despawn

====
